---- MODULE Spec2Model ----
(***************************************************************************)
(* Model of pyopenreil/VM.py: the sparse memory (Mem), the REIL CPU (Cpu), *)
(* the Stack helper and the call-convention facade (Abi).                  *)
(*                                                                         *)
(* Python integers are unbounded; the values that occur here are at most   *)
(* 64 bits wide.  A value is held as four little-endian 16-bit limbs       *)
(* <<l0,l1,l2,l3>> (value = l0 + 2^16*l1 + 2^32*l2 + 2^48*l3), so that     *)
(* 0xcafebabe and 64-bit stores keep their exact values.                   *)
(***************************************************************************)
EXTENDS Integers, Sequences, FiniteSets, TLC

VARIABLES
    data,        \* Mem.data: address -> byte (0..255), a partial function
    alloc_last,  \* Mem.alloc_last
    strict,      \* Mem.strict
    reader,      \* Mem.reader: [present, mem]
    last,        \* result of the latest Mem operation issued by the client
    nops,        \* number of Mem operations issued so far (bounded)
    ovl,         \* how many stores of TestMem.test's sequence have been issued in a row
    regs,        \* Cpu.regs: canonical name -> [val, is_temp]
    pc,          \* position of the client / of Abi.call / of the Cpu.run loop
    next,        \* Cpu.run: local `next`
    insn_list,   \* Cpu.run: the list returned by storage.get_insn(next)
    idx,         \* Cpu.run: index of the instruction of insn_list being executed
    err,         \* the error raised by the latest Cpu.run
    stack_top,   \* Stack.top of the stack built by the latest call
    storage,     \* name of the code storage handed to Abi / Cpu.run
    harness,     \* "abi": Abi over a Cpu; "test": TestStack.test; "cpu": TestCpu;
                 \* "mem": Mem alone
    call,        \* inputs of the latest call: [conv, addr, args]
    outcome,     \* how the latest Abi call ended: [kind, val]
    ncalls,      \* number of Abi calls started so far (bounded)
    first,       \* Cpu.run: TRUE until the first instruction list has finished
    was_reset,   \* TRUE right after Abi.reset()
    anon,        \* the <<address, size>> every anonymous alloc has returned
    shadow       \* the values pushed on the Stack and not yet popped, oldest first

vars == <<data, alloc_last, strict, reader, last, nops, ovl, regs, pc, next, insn_list,
          idx, err, stack_top, storage, harness, call, outcome, ncalls, first,
          was_reset, anon, shadow>>

memVars == <<data, alloc_last, strict, reader>>
cpuVars == <<regs, pc, next, insn_list, idx, err, stack_top, storage, call,
             outcome, ncalls, first, was_reset>>

(***************************************************************************)
(* Bounds of the model.                                                    *)
(***************************************************************************)
MaxOps == 4      \* Mem operations per session (SpecMem)
MaxCalls == 2    \* Abi calls per session (Spec)
MaxInsns == 2    \* instructions executed per session (SpecExec)
MaxDepth == 3    \* values held by a Stack at once (SpecStack)

(***************************************************************************)
(* Values.                                                                 *)
(***************************************************************************)
Zero == <<0, 0, 0, 0>>
W16(x) == <<x, 0, 0, 0>>
W32(hi, lo) == <<lo, hi, 0, 0>>
W64(l3, l2, l1, l0) == <<l0, l1, l2, l3>>

Min(S) == CHOOSE x \in S : \A y \in S : x <= y

\* Python int addition of a small non-negative offset: v + n
RECURSIVE AddCarry(_, _, _)
AddCarry(v, i, c) ==
    IF i > 4 \/ c = 0 THEN v
    ELSE LET s == v[i] + c
         IN  AddCarry([v EXCEPT ![i] = s % 65536], i + 1, s \div 65536)

AddOff(v, n) ==
    IF v[1] + n < 65536 THEN <<v[1] + n, v[2], v[3], v[4]>> ELSE AddCarry(v, 1, n)

\* Python int subtraction of a small non-negative offset: v - n (v >= n)
RECURSIVE SubBorrow(_, _, _)
SubBorrow(v, i, b) ==
    IF i > 4 \/ b = 0 THEN v
    ELSE IF v[i] >= b THEN [v EXCEPT ![i] = v[i] - b]
    ELSE SubBorrow([v EXCEPT ![i] = v[i] + 65536 - b], i + 1, 1)

SubOff(v, n) == SubBorrow(v, 1, n)

\* x - y modulo 2^64
VSub(x, y) ==
    LET b1 == IF x[1] < y[1] THEN 1 ELSE 0
        b2 == IF x[2] < y[2] + b1 THEN 1 ELSE 0
        b3 == IF x[3] < y[3] + b2 THEN 1 ELSE 0
    IN  <<(x[1] - y[1]) % 65536, (x[2] - y[2] - b1) % 65536,
          (x[3] - y[3] - b2) % 65536, (x[4] - y[4] - b3) % 65536>>

\* a - addr as a number when 0 <= a - addr < 2^30, and -1 otherwise
Off(a, addr) ==
    LET dd == VSub(a, addr)
    IN  IF dd[3] = 0 /\ dd[4] = 0 /\ dd[2] < 16384 THEN dd[1] + 65536 * dd[2] ELSE -1

\* the addresses addr + i, i in range(0, size)
Range(addr, size) ==
    IF addr[1] + size <= 65536
    THEN {<<lo, addr[2], addr[3], addr[4]>> : lo \in addr[1]..(addr[1] + size - 1)}
    ELSE {AddOff(addr, i) : i \in 0..(size - 1)}

(***************************************************************************)
(* REIL widths (REIL.py: U1, U8, U16, U32, U64).                           *)
(***************************************************************************)
Widths == {"U1", "U8", "U16", "U32", "U64"}

\* Arg.get_val masks the value with the mask of the operand's width
Mask(size, v) ==
    CASE size = "U1"  -> <<v[1] % 2, 0, 0, 0>>
      [] size = "U8"  -> <<v[1] % 256, 0, 0, 0>>
      [] size = "U16" -> <<v[1], 0, 0, 0>>
      [] size = "U32" -> <<v[1], v[2], 0, 0>>
      [] size = "U64" -> v

(***************************************************************************)
(* Mem                                                                     *)
(***************************************************************************)
DEF_ALLOC_BASE == W32(4352, 0)     \* 0x11000000

map_length == [U8 |-> 1, U16 |-> 2, U32 |-> 4, U64 |-> 8]

map_size == [i \in {1, 2, 4, 8} |->
                CASE i = 1 -> "U8" [] i = 2 -> "U16" [] i = 4 -> "U32" [] i = 8 -> "U64"]

\* byte i (0 = least significant) of a value: (val >> 8*i) & 0xff
ByteOf(v, i) == (v[(i \div 2) + 1] \div (IF i % 2 = 0 THEN 1 ELSE 256)) % 256

\* struct.pack raises struct.error unless 0 <= val < 2^bits
Fits(size, val) == Mask(size, val) = val

\* mutant of pack: most significant byte first
pack_big_endian(size, val) ==
    [i \in 1..map_length[size] |-> ByteOf(val, map_length[size] - i)]

\* struct.pack(map_format[size], val) on a little-endian host
pack(size, val) == [i \in 1..map_length[size] |-> ByteOf(val, i - 1)]

\* struct.unpack(map_format[size], bytes)[0] on a little-endian host
unpack(size, bytes) ==
    [j \in 1..4 |->
        (IF 2 * j - 1 <= map_length[size] THEN bytes[2 * j - 1] ELSE 0)
      + (IF 2 * j <= map_length[size] THEN 256 * bytes[2 * j] ELSE 0)]

NoReader == [present |-> FALSE, mem |-> <<>>]

\* reader.read(addr, size): the bytes when the reader knows the whole range
ReaderRead(rd, addr, size) ==
    IF \A i \in 0..(size - 1) : AddOff(addr, i) \in DOMAIN rd.mem
    THEN [some |-> TRUE, bytes |-> [i \in 1..size |-> rd.mem[AddOff(addr, i - 1)]]]
    ELSE [some |-> FALSE, bytes |-> <<>>]

\* Mem._read: every byte of the range must be defined
Mem_read(d, addr, size) ==
    IF \A i \in 0..(size - 1) : AddOff(addr, i) \in DOMAIN d
    THEN [ok |-> TRUE, bytes |-> [i \in 1..size |-> d[AddOff(addr, i - 1)]]]
    ELSE [ok |-> FALSE, bytes |-> <<>>]

\* self.data[addr + i] = data[i] for i = from .. upto - 1
RECURSIVE WriteBytes(_, _, _, _, _)
WriteBytes(d, addr, bytes, from, upto) ==
    IF from >= upto THEN d
    ELSE WriteBytes([d EXCEPT ![AddOff(addr, from)] = bytes[from + 1]],
                    addr, bytes, from + 1, upto)

\* mutant of Mem_write: the loop stops one byte short
Mem_write_short(d, addr, size, bytes) ==
    LET undef == {i \in 0..(size - 2) : AddOff(addr, i) \notin DOMAIN d}
    IN  [ok |-> undef = {},
         data |-> WriteBytes(d, addr, bytes, 0,
                             IF undef = {} THEN size - 1 ELSE Min(undef))]

\* Mem._write: byte by byte, up to the first undefined address, where it raises
Mem_write(d, addr, size, bytes) ==
    LET undef == {i \in 0..(size - 1) : AddOff(addr, i) \notin DOMAIN d}
    IN  [ok |-> undef = {},
         data |-> WriteBytes(d, addr, bytes, 0,
                             IF undef = {} THEN size ELSE Min(undef))]

\* Mem.alloc at a given address: fill the range with the data, padded with zeros
alloc(d, addr, size, bytes) ==
    LET rng == Range(addr, size)
    IN  [a \in rng |->
            IF bytes = <<>> \/ Off(a, addr) >= Len(bytes) THEN 0
            ELSE bytes[Off(a, addr) + 1]]
        @@ [a \in (DOMAIN d) \ rng |-> d[a]]

\* mutant of read: the reader's bytes are returned but not installed
read_no_install(d, rd, addr, size) ==
    LET r == Mem_read(d, addr, size)
        x == ReaderRead(rd, addr, size)
    IN  IF r.ok THEN [ok |-> TRUE, bytes |-> r.bytes, data |-> d]
        ELSE IF ~rd.present \/ ~x.some
             THEN [ok |-> FALSE, bytes |-> <<>>, data |-> d]
        ELSE [ok |-> TRUE, bytes |-> x.bytes, data |-> d]

\* Mem.read
read(d, rd, addr, size) ==
    LET r == Mem_read(d, addr, size)
        x == ReaderRead(rd, addr, size)
    IN  IF r.ok THEN [ok |-> TRUE, bytes |-> r.bytes, data |-> d]
        ELSE IF ~rd.present \/ ~x.some
             THEN [ok |-> FALSE, bytes |-> <<>>, data |-> d]
        ELSE [ok |-> TRUE, bytes |-> x.bytes,
              data |-> alloc(d, addr, Len(x.bytes), x.bytes)]

\* mutant of write: the strict rule is applied to a lenient memory too
write_always_strict(d, st, rd, addr, size, bytes) ==
    LET w == Mem_write(d, addr, size, bytes)
    IN  IF w.ok THEN [ok |-> TRUE, data |-> w.data]
        ELSE IF ~rd.present \/ ~ReaderRead(rd, addr, size).some
             THEN [ok |-> FALSE, data |-> w.data]
        ELSE [ok |-> TRUE, data |-> alloc(w.data, addr, Len(bytes), bytes)]

\* Mem.write
write(d, st, rd, addr, size, bytes) ==
    LET w == Mem_write(d, addr, size, bytes)
    IN  IF w.ok THEN [ok |-> TRUE, data |-> w.data]
        ELSE IF st /\ (~rd.present \/ ~ReaderRead(rd, addr, size).some)
             THEN [ok |-> FALSE, data |-> w.data]
        ELSE [ok |-> TRUE, data |-> alloc(w.data, addr, Len(bytes), bytes)]

\* Mem.store
store(d, st, rd, addr, size, val) ==
    write(d, st, rd, addr, map_length[size], pack(size, val))

\* Mem.load
load(d, rd, addr, size) ==
    LET r == read(d, rd, addr, map_length[size])
    IN  [ok |-> r.ok, data |-> r.data,
         val |-> IF r.ok THEN unpack(size, r.bytes) ELSE Zero]

(***************************************************************************)
(* SpecMem: a client issuing operations on a Mem of its own                *)
(* (TestMem.test: Mem(strict = False); scenarios S5 and S6 of the spec).   *)
(***************************************************************************)
A_TEST == Zero                     \* TestMem.test stores at address 0
A_FILL == W16(4096)                \* 0x1000: known to the test reader
A_STRICT == W16(8192)              \* 0x2000: strict write rejection scenario

\* a reader that knows 0x1000..0x1003 = AA BB CC DD
TestReader ==
    [present |-> TRUE,
     mem |-> [a \in Range(A_FILL, 4) |->
                 CASE Off(a, A_FILL) = 0 -> 170 [] Off(a, A_FILL) = 1 -> 187
                   [] Off(a, A_FILL) = 2 -> 204 [] Off(a, A_FILL) = 3 -> 221]]

MemAddrs == {A_TEST, A_STRICT}

\* the (width, value) pairs the client stores
StoreVals ==
    { <<"U64", W64(4369, 4369, 4369, 4369)>>,      \* 0x1111111111111111
      <<"U64", W64(291, 17767, 35243, 52719)>>,    \* 0x0123456789abcdef
      <<"U32", W32(8738, 8738)>>,                  \* 0x22222222
      <<"U16", W16(17476)>>,                       \* 0x4444
      <<"U8",  W16(136)>> }                        \* 0x88

\* further stores: at the addresses the reader knows and at 0x2000
StoreMore ==
    { <<A_FILL, "U32", W32(8738, 8738)>>,
      <<A_FILL, "U64", W64(4369, 4369, 4369, 4369)>>,
      <<A_STRICT, "U32", Zero>>,
      <<A_STRICT, "U64", W64(4369, 4369, 4369, 4369)>>,
      <<AddOff(A_FILL, 3), "U8", W16(136)>> }

\* sizes of the anonymous allocations a client asks for
AllocSizes == {1, 4}

NoOp == [op |-> "none", addr |-> Zero, size |-> "U8", val |-> Zero, ok |-> TRUE]

\* progress along store(A,U64,0x11..); store(A,U32,0x22..); store(A,U16,0x4444);
\* store(A,U8,0x88) issued on an empty lenient memory
OverlapSeq ==
    << <<"U64", W64(4369, 4369, 4369, 4369)>>, <<"U32", W32(8738, 8738)>>,
       <<"U16", W16(17476)>>, <<"U8", W16(136)>> >>

\* the position in OverlapSeq after a store: the sequence starts on a memory with
\* no defined address and lenient writes, and every store of it succeeds
OverlapStep(addr, size, val, ok) ==
    IF ok /\ addr = A_TEST /\ ovl \in 1..3 /\ OverlapSeq[ovl + 1] = <<size, val>>
    THEN ovl + 1
    ELSE IF ok /\ addr = A_TEST /\ OverlapSeq[1] = <<size, val>>
            /\ DOMAIN data = {} /\ ~strict
    THEN 1
    ELSE 0

InitMem ==
    /\ data = <<>>
    /\ alloc_last = DEF_ALLOC_BASE
    /\ strict \in BOOLEAN
    /\ reader \in {NoReader, TestReader}
    /\ last = NoOp
    /\ nops = 0
    /\ ovl = 0
    /\ harness = "mem"
    /\ regs = <<>>
    /\ pc = "mem"
    /\ next = Zero
    /\ insn_list = <<>>
    /\ idx = 0
    /\ err = [kind |-> "none", addr |-> Zero, inum |-> 0]
    /\ stack_top = Zero
    /\ storage = "none"
    /\ call = [conv |-> "none", addr |-> Zero, args |-> <<>>, ret |-> Zero]
    /\ outcome = [kind |-> "none", val |-> Zero]
    /\ ncalls = 0
    /\ first = FALSE
    /\ was_reset = FALSE
    /\ anon = {}
    /\ shadow = <<>>

\* mem.store(addr, size, val)
MemStore(addr, size, val) ==
    LET r == store(data, strict, reader, addr, size, val)
    IN  /\ harness = "mem" /\ nops < MaxOps
        /\ Fits(size, val)
        /\ data' = r.data
        /\ last' = [op |-> "store", addr |-> addr, size |-> size, val |-> val,
                    ok |-> r.ok]
        /\ nops' = nops + 1
        /\ ovl' = OverlapStep(addr, size, val, r.ok)
        /\ UNCHANGED <<alloc_last, strict, reader, harness, anon, shadow>>
        /\ UNCHANGED cpuVars

\* mem.load(addr, size)
MemLoad(addr, size) ==
    LET r == load(data, reader, addr, size)
    IN  /\ harness = "mem" /\ nops < MaxOps
        /\ data' = r.data
        /\ last' = [op |-> "load", addr |-> addr, size |-> size, val |-> r.val,
                    ok |-> r.ok]
        /\ nops' = nops + 1
        /\ ovl' = 0
        /\ UNCHANGED <<alloc_last, strict, reader, harness, anon, shadow>>
        /\ UNCHANGED cpuVars

\* mem.alloc(addr = addr, size = 4)
MemAllocAt(addr) ==
    /\ harness = "mem" /\ nops < MaxOps
    /\ data' = alloc(data, addr, 4, <<>>)
    /\ last' = [op |-> "alloc", addr |-> addr, size |-> "U32", val |-> Zero,
                ok |-> TRUE]
    /\ nops' = nops + 1
    /\ ovl' = 0
    /\ UNCHANGED <<alloc_last, strict, reader, harness, anon, shadow>>
    /\ UNCHANGED cpuVars

\* mutant of MemAllocAnon: the cursor is left where it was
MemAllocAnon_keeps_cursor(size) ==
    /\ harness = "mem" /\ nops < MaxOps
    /\ data' = alloc(data, alloc_last, size, <<>>)
    /\ anon' = anon \cup {<<alloc_last, size>>}
    /\ last' = [op |-> "alloc", addr |-> alloc_last, size |-> map_size[size],
                val |-> Zero, ok |-> TRUE]
    /\ nops' = nops + 1
    /\ ovl' = 0
    /\ UNCHANGED <<alloc_last, strict, reader, harness, shadow>>
    /\ UNCHANGED cpuVars

\* mem.alloc(size = size): Mem.alloc_addr returns the cursor and advances it
MemAllocAnon(size) ==
    /\ harness = "mem" /\ nops < MaxOps
    /\ data' = alloc(data, alloc_last, size, <<>>)
    /\ alloc_last' = AddOff(alloc_last, size)
    /\ anon' = anon \cup {<<alloc_last, size>>}
    /\ last' = [op |-> "alloc", addr |-> alloc_last, size |-> map_size[size],
                val |-> Zero, ok |-> TRUE]
    /\ nops' = nops + 1
    /\ ovl' = 0
    /\ UNCHANGED <<strict, reader, harness, shadow>>
    /\ UNCHANGED cpuVars

\* mutant of MemClear: the contents survive
MemClear_keeps_data ==
    /\ harness = "mem" /\ nops < MaxOps
    /\ last' = [NoOp EXCEPT !.op = "clear"]
    /\ nops' = nops + 1
    /\ ovl' = 0
    /\ UNCHANGED <<data, alloc_last, strict, reader, harness, anon, shadow>>
    /\ UNCHANGED cpuVars

\* mem.clear()
MemClear ==
    /\ harness = "mem" /\ nops < MaxOps
    /\ data' = <<>>
    /\ last' = [NoOp EXCEPT !.op = "clear"]
    /\ nops' = nops + 1
    /\ ovl' = 0
    /\ UNCHANGED <<alloc_last, strict, reader, harness, anon, shadow>>
    /\ UNCHANGED cpuVars

NextMem ==
    \/ \E sv \in StoreVals : MemStore(A_TEST, sv[1], sv[2])
    \/ \E x \in StoreMore : MemStore(x[1], x[2], x[3])
    \/ \E a \in MemAddrs \cup {A_FILL}, w \in DOMAIN map_length : MemLoad(a, w)
    \/ \E a \in MemAddrs : MemAllocAt(a)
    \/ \E n \in AllocSizes : MemAllocAnon(n)
    \/ MemClear

SpecMem == InitMem /\ [][NextMem]_vars

(***************************************************************************)
(* Architecture description (pyopenreil.arch.x86) and REIL operands.       *)
(* A register name is [pfx, id]: pfx is "R_", "V_" or "" (no prefix).      *)
(***************************************************************************)
Rn(id) == [pfx |-> "R_", id |-> id]
Vn(id) == [pfx |-> "V_", id |-> id]
NoName == [pfx |-> "", id |-> ""]

ptr_len == 4
RegGeneral == {Rn("EAX"), Rn("EBX"), Rn("ECX"), Rn("EDX"),
               Rn("ESI"), Rn("EDI"), Rn("EBP"), Rn("ESP")}
RegFlags == {Rn("ZF"), Rn("PF"), Rn("CF"), Rn("AF"), Rn("SF"), Rn("OF"), Rn("DFLAG")}
REG_IP == Rn("EIP")
REG_SP == Rn("ESP")
REG_ACCUM == Rn("EAX")

REIL_INSN ==
    {"I_NONE", "I_JCC", "I_STM", "I_LDM", "I_STR", "I_ADD", "I_SUB", "I_NEG",
     "I_MUL", "I_DIV", "I_MOD", "I_SMUL", "I_SDIV", "I_SMOD", "I_SHL", "I_SHR",
     "I_AND", "I_OR", "I_XOR", "I_NOT", "I_EQ", "I_LT"}

ArgReg(name, size) == [type |-> "A_REG", size |-> size, name |-> name, val |-> Zero]
ArgTemp(name, size) == [type |-> "A_TEMP", size |-> size, name |-> name, val |-> Zero]
ArgConst(val, size) == [type |-> "A_CONST", size |-> size, name |-> NoName, val |-> val]
ArgNone == [type |-> "A_NONE", size |-> "U8", name |-> NoName, val |-> Zero]

\* Arg.get_val: the value masked to the operand's width
get_val(a) == Mask(a.size, a.val)

\* Insn.next(): the address of the next native instruction after the last REIL
\* instruction of a list, the instruction's own address otherwise
InsnNext(insn) == IF insn.asm_end THEN AddOff(insn.addr, insn.size) ELSE insn.addr

(***************************************************************************)
(* Math                                                                    *)
(***************************************************************************)
\* the numpy unsigned type of a width: U1 and U8 are numpy.uint8
val_u_type(size) == IF size = "U1" THEN "U8" ELSE size

\* the type numpy promotes two unsigned operands to: the wider one
Promote(s1, s2) ==
    IF map_length[val_u_type(s1)] >= map_length[val_u_type(s2)]
    THEN val_u_type(s1) ELSE val_u_type(s2)

\* x + y modulo 2^64
VAdd(x, y) ==
    LET s1 == x[1] + y[1]
        s2 == x[2] + y[2] + (s1 \div 65536)
        s3 == x[3] + y[3] + (s2 \div 65536)
        s4 == x[4] + y[4] + (s3 \div 65536)
    IN  <<s1 % 65536, s2 % 65536, s3 % 65536, s4 % 65536>>

\* the integer a value below 2^31 stands for, and the value of an integer
ToInt(v) == v[1] + 65536 * v[2]

FromInt(n) ==
    IF n >= 0 THEN <<n % 65536, n \div 65536, 0, 0>>
    ELSE VSub(Zero, <<(-n) % 65536, (-n) \div 65536, 0, 0>>)

\* Math.val_u: the operand as an integer of its numpy unsigned type
val_u(a) == ToInt(Mask(val_u_type(a.size), get_val(a)))

\* Math.val_s: the unsigned value reinterpreted in two's complement (U1 as U8)
val_s(a) ==
    LET half == IF map_length[val_u_type(a.size)] = 1 THEN 128 ELSE 32768
    IN  IF val_u(a) >= half THEN val_u(a) - 2 * half ELSE val_u(a)

\* numpy integer x / y and x % y under Python 2: the quotient is rounded down,
\* the remainder has the sign of the divisor, and a zero divisor gives 0
FloorDiv(x, y) ==
    IF y = 0 THEN 0 ELSE IF y > 0 THEN x \div y ELSE (-x) \div (-y)

PyMod(x, y) == IF y = 0 THEN 0 ELSE x - y * FloorDiv(x, y)

\* Math.eval for the operators the modelled code uses; the division family is
\* modelled for operands of at most 16 bits
eval(op, a, b) ==
    CASE op = "I_STR" -> get_val(a)
      [] op = "I_ADD" -> Mask(Promote(a.size, b.size),
                              VAdd(Mask(val_u_type(a.size), get_val(a)),
                                   Mask(val_u_type(b.size), get_val(b))))
      [] op = "I_DIV" -> FromInt(FloorDiv(val_u(a), val_u(b)))
      [] op = "I_MOD" -> FromInt(PyMod(val_u(a), val_u(b)))
      [] op = "I_SDIV" -> FromInt(FloorDiv(val_s(a), val_s(b)))
      [] op = "I_SMOD" -> FromInt(PyMod(val_s(a), val_s(b)))

(***************************************************************************)
(* Cpu                                                                     *)
(***************************************************************************)
NoErr == [kind |-> "none", addr |-> Zero, inum |-> 0]
MemReadError(addr) == [kind |-> "MemReadError", addr |-> addr, inum |-> 0]
MemWriteError(addr) == [kind |-> "MemWriteError", addr |-> addr, inum |-> 0]
CpuReadError(addr) == [kind |-> "CpuReadError", addr |-> addr, inum |-> 0]
CpuInstructionError(addr, inum) ==
    [kind |-> "CpuInstructionError", addr |-> addr, inum |-> inum]

\* the subclasses of CpuError
CpuError == {"CpuReadError", "CpuInstructionError"}

\* Cpu.reg: the canonical name
Canon(name, is_temp) ==
    IF name.pfx \in {"R_", "V_"} THEN name
    ELSE [pfx |-> IF is_temp THEN "V_" ELSE "R_", id |-> name.id]

\* Cpu.reg: the register file after the lookup; an absent register is created
\* with val, a present one is left as it is
reg(rs, name, val, is_temp) ==
    IF Canon(name, is_temp) \in DOMAIN rs THEN rs
    ELSE (Canon(name, is_temp) :> [val |-> val, is_temp |-> is_temp]) @@ rs

\* self.reg(name).val = val
SetReg(rs, name, val) ==
    [reg(rs, name, Zero, FALSE) EXCEPT ![Canon(name, FALSE)].val = val]

\* Cpu.reset(regs) with a map: self.reg(name, val = val) for every item
reset(rs, given) ==
    [n \in (DOMAIN rs) \cup {Canon(m, FALSE) : m \in DOMAIN given} |->
        IF n \in DOMAIN rs THEN rs[n]
        ELSE [val |-> given[CHOOSE m \in DOMAIN given : Canon(m, FALSE) = n],
              is_temp |-> FALSE]]

\* mutant of reset_temp: the temporaries are kept
reset_temp_none(rs) == rs

\* Cpu.reset_temp
reset_temp(rs) == [n \in {m \in DOMAIN rs : ~rs[m].is_temp} |-> rs[n]]

\* Cpu.arg: the register file after the lookup and the resolved operand
arg(rs, a) ==
    CASE a.type = "A_REG" ->
            [regs |-> reg(rs, a.name, Zero, FALSE),
             arg |-> ArgConst(reg(rs, a.name, Zero, FALSE)[Canon(a.name, FALSE)].val,
                              a.size)]
      [] a.type = "A_TEMP" ->
            [regs |-> reg(rs, a.name, Zero, TRUE),
             arg |-> ArgConst(reg(rs, a.name, Zero, TRUE)[Canon(a.name, TRUE)].val,
                              a.size)]
      [] a.type = "A_CONST" -> [regs |-> rs, arg |-> a]
      [] a.type = "A_NONE" -> [regs |-> rs, arg |-> ArgNone]

\* mutant of insn_jcc: a target of 0 counts as no target
insn_jcc_truthy(a, c) ==
    [jump |-> get_val(a) # Zero /\ get_val(c) # Zero, target |-> get_val(c)]

\* Cpu.insn_jcc: the branch target when the condition is non-zero
insn_jcc(a, c) == [jump |-> get_val(a) # Zero, target |-> get_val(c)]

\* mutant of insn_other: the result is stored as evaluated
insn_other_untruncated(rs, insn, a, b) ==
    SetReg(rs, insn.c.name, eval(insn.op, a, b))

\* Cpu.insn_other: evaluate(op, c.size, a, b).get_val() into the destination
insn_other(rs, insn, a, b) ==
    SetReg(rs, insn.c.name, Mask(insn.c.size, eval(insn.op, a, b)))

\* Cpu.execute: the registers and memory after the instruction, the branch target
\* it returns (jump, target) and the error it raises
execute(rs, d, st, rd, insn) ==
    LET ra == arg(rs, insn.a)
        rb == arg(ra.regs, insn.b)
        rc == arg(rb.regs, insn.c)
        a == ra.arg
        b == rb.arg
        c == rc.arg
        same == [regs |-> rc.regs, data |-> d, jump |-> FALSE, target |-> Zero,
                 err |-> NoErr]
    IN  IF insn.op \notin REIL_INSN
        THEN [same EXCEPT !.err = CpuInstructionError(insn.addr, insn.inum)]
        ELSE CASE insn.op = "I_NONE" -> same
               [] insn.op = "I_JCC" ->
                    [same EXCEPT !.jump = insn_jcc(a, c).jump,
                                 !.target = insn_jcc(a, c).target]
               [] insn.op = "I_STM" ->
                    LET w == store(d, st, rd, get_val(c), insn.a.size, get_val(a))
                    IN  [same EXCEPT !.data = w.data,
                                     !.err = IF w.ok THEN NoErr
                                             ELSE MemWriteError(get_val(c))]
               [] insn.op = "I_LDM" ->
                    LET r == load(d, rd, get_val(a), insn.c.size)
                    IN  IF r.ok
                        THEN [same EXCEPT !.data = r.data,
                                          !.regs = SetReg(rc.regs, insn.c.name, r.val)]
                        ELSE [same EXCEPT !.err = MemReadError(get_val(a))]
               [] OTHER -> [same EXCEPT !.regs = insn_other(rc.regs, insn, a, b)]

(***************************************************************************)
(* Stack and Abi                                                           *)
(***************************************************************************)
DEF_STACK_BASE == W32(4608, 0)     \* 0x12000000
DEF_STACK_SIZE == 4096
DUMMY_RET_ADDR == W32(51966, 47806)     \* 0xcafebabe

\* Stack.__init__: the region is allocated (zero filled), top = bottom = addr + size
NewStack(d) ==
    [data |-> alloc(d, DEF_STACK_BASE, DEF_STACK_SIZE, <<>>),
     top |-> AddOff(DEF_STACK_BASE, DEF_STACK_SIZE), ok |-> TRUE]

\* mutant of push: the value is stored at the old top, which is then decreased
push_after(s, st, rd, val) ==
    LET w == store(s.data, st, rd, s.top, map_size[ptr_len], val)
    IN  IF ~s.ok THEN s
        ELSE [data |-> w.data, top |-> SubOff(s.top, ptr_len), ok |-> w.ok]

\* Stack.push: top -= item_size, then mem.store(top, map_size[item_size], val)
push(s, st, rd, val) ==
    LET w == store(s.data, st, rd, SubOff(s.top, ptr_len), map_size[ptr_len], val)
    IN  IF ~s.ok THEN s
        ELSE [data |-> w.data, top |-> SubOff(s.top, ptr_len), ok |-> w.ok]

\* Stack.pop: mem.load(top, map_size[item_size]), then top += item_size
pop(s, rd) ==
    LET r == load(s.data, rd, s.top, map_size[ptr_len])
    IN  [data |-> r.data, top |-> IF r.ok THEN AddOff(s.top, ptr_len) ELSE s.top,
         ok |-> r.ok, val |-> r.val]

\* list.reverse()
Reverse(seq) == [i \in 1..Len(seq) |-> seq[Len(seq) + 1 - i]]

RECURSIVE PushAll(_, _, _, _)
PushAll(s, st, rd, seq) ==
    IF seq = <<>> THEN s ELSE PushAll(push(s, st, rd, Head(seq)), st, rd, Tail(seq))

\* mutant of pushargs: the arguments pushed in the order given
pushargs_in_order(d, st, rd, args) == PushAll(NewStack(d), st, rd, args)

\* Abi.pushargs: a fresh stack, the arguments pushed in reverse order
pushargs(d, st, rd, args) == PushAll(NewStack(d), st, rd, Reverse(args))

\* Abi.initial_regs
initial_regs == [n \in RegGeneral \cup RegFlags |-> Zero]

(***************************************************************************)
(* Code storages: the REIL expansion of each native instruction, keyed by  *)
(* its address (the output of CodeStorageTranslator, which VM.py consumes  *)
(* through storage.get_insn and storage.reader).                           *)
(***************************************************************************)
Insn(addr, inum, op, a, b, c, size, asm_end) ==
    [addr |-> addr, inum |-> inum, op |-> op, a |-> a, b |-> b, c |-> c,
     size |-> size, asm_end |-> asm_end]

R32(id) == ArgReg(Rn(id), "U32")
T32(id) == ArgTemp(Vn(id), "U32")
C32(n) == ArgConst(W16(n), "U32")
TRUE1 == ArgConst(W16(1), "U1")

\* pop r32: load the word at esp, esp += 4, move the word to the register
PopReg(x, id) ==
    << Insn(x, 0, "I_STR", R32("ESP"), ArgNone, T32("00"), 1, FALSE),
       Insn(x, 1, "I_LDM", T32("00"), ArgNone, T32("01"), 1, FALSE),
       Insn(x, 2, "I_ADD", T32("00"), C32(4), R32("ESP"), 1, FALSE),
       Insn(x, 3, "I_STR", T32("01"), ArgNone, R32(id), 1, TRUE) >>

\* jmp r32
JmpReg(x, id) == << Insn(x, 0, "I_JCC", TRUE1, ArgNone, R32(id), 2, TRUE) >>

\* ret: pop the return address and jump to it
Ret(x) ==
    << Insn(x, 0, "I_STR", R32("ESP"), ArgNone, T32("00"), 1, FALSE),
       Insn(x, 1, "I_LDM", T32("00"), ArgNone, T32("01"), 1, FALSE),
       Insn(x, 2, "I_ADD", T32("00"), C32(4), R32("ESP"), 1, FALSE),
       Insn(x, 3, "I_JCC", TRUE1, ArgNone, T32("01"), 1, TRUE) >>

\* a native instruction whose list holds a conditional JCC in the middle:
\* a temporary is written, then "if eax != 0 goto edx", then ebx = 9
CondJmp(x) ==
    << Insn(x, 0, "I_STR", C32(5), ArgNone, T32("07"), 2, FALSE),
       Insn(x, 1, "I_JCC", R32("EAX"), ArgNone, R32("EDX"), 2, FALSE),
       Insn(x, 2, "I_STR", C32(9), ArgNone, R32("EBX"), 2, TRUE) >>

\* a native instruction that reads the temporary of CondJmp, then jmp ecx
ReadTemp(x) ==
    << Insn(x, 0, "I_STR", T32("07"), ArgNone, R32("ESI"), 2, FALSE),
       Insn(x, 1, "I_JCC", TRUE1, ArgNone, R32("ECX"), 2, TRUE) >>

\* an instruction whose opcode is not in REIL_INSN
BadInsn(x) == << Insn(x, 0, "I_BAD", ArgNone, ArgNone, ArgNone, 1, TRUE) >>

\* mov dword [ebx], eax
StoreMem(x) == << Insn(x, 0, "I_STM", R32("EAX"), ArgNone, R32("EBX"), 2, TRUE) >>

\* mov r32, r32
MovReg(x, dst, src) ==
    << Insn(x, 0, "I_STR", R32(src), ArgNone, R32(dst), 2, TRUE) >>

\* add r32, r32 (the flag computations of the translation are left out)
AddReg(x, dst, src) ==
    << Insn(x, 0, "I_ADD", R32(dst), R32(src), T32("00"), 2, FALSE),
       Insn(x, 1, "I_STR", T32("00"), ArgNone, R32(dst), 2, TRUE) >>

\* nop
Nop(x) == << Insn(x, 0, "I_NONE", ArgNone, ArgNone, ArgNone, 1, TRUE) >>

\* mov r32, dword [m]
MovLoad(x, dst, m) ==
    << Insn(x, 0, "I_LDM", ArgConst(m, "U32"), ArgNone, T32("00"), 5, FALSE),
       Insn(x, 1, "I_STR", T32("00"), ArgNone, R32(dst), 5, TRUE) >>

ADDR == W32(16705, 16705)          \* 0x41414141
STACK == W32(16962, 16962)         \* 0x42424242 (TestCpu: the stack pointer)
ARG == W32(16962, 16962)           \* 0x42424242
RET == W32(17219, 17219)           \* 0x43434343

\* 'pop ecx', 'pop eax', 'jmp ecx' (TestStack.test, TestAbi.test)
CodePop ==
    (ADDR :> PopReg(ADDR, "ECX")) @@ (AddOff(ADDR, 1) :> PopReg(AddOff(ADDR, 1), "EAX"))
    @@ (AddOff(ADDR, 2) :> JmpReg(AddOff(ADDR, 2), "ECX"))

\* 'ret': a callee that never writes the accumulator
CodeRet == (ADDR :> Ret(ADDR))

\* 'pop ecx', 'pop eax', 'pop edx', CondJmp, ReadTemp
CodeJcc ==
    (ADDR :> PopReg(ADDR, "ECX")) @@ (AddOff(ADDR, 1) :> PopReg(AddOff(ADDR, 1), "EAX"))
    @@ (AddOff(ADDR, 2) :> PopReg(AddOff(ADDR, 2), "EDX"))
    @@ (AddOff(ADDR, 3) :> CondJmp(AddOff(ADDR, 3)))
    @@ (AddOff(ADDR, 5) :> ReadTemp(AddOff(ADDR, 5)))

\* 'ret'; an invalid opcode; a store through ebx; an invalid opcode at 0xcafebabe
CodeBad ==
    (ADDR :> Ret(ADDR)) @@ (AddOff(ADDR, 1) :> BadInsn(AddOff(ADDR, 1)))
    @@ (AddOff(ADDR, 2) :> StoreMem(AddOff(ADDR, 2)))
    @@ (DUMMY_RET_ADDR :> BadInsn(DUMMY_RET_ADDR))

\* 'mov eax, edx', 'add eax, ecx', 'ret' (TestCpu.test)
CodeAdd ==
    (ADDR :> MovReg(ADDR, "EAX", "EDX"))
    @@ (AddOff(ADDR, 2) :> AddReg(AddOff(ADDR, 2), "EAX", "ECX"))
    @@ (AddOff(ADDR, 4) :> Ret(AddOff(ADDR, 4)))

\* 'nop', 'nop', 'nop', 'nop', 'mov eax, dword [ADDR]', 'ret' (TestCpu.test_code_read)
CodeNop ==
    [a \in Range(ADDR, 4) |-> Nop(a)]
    @@ (AddOff(ADDR, 4) :> MovLoad(AddOff(ADDR, 4), "EAX", ADDR))
    @@ (AddOff(ADDR, 9) :> Ret(AddOff(ADDR, 9)))

Storages == {"pop", "ret", "jcc", "bad"}

\* storage.get_insn: the lists the storage knows
Code(st) ==
    CASE st = "pop" -> CodePop
      [] st = "ret" -> CodeRet
      [] st = "jcc" -> CodeJcc
      [] st = "bad" -> CodeBad
      [] st = "add" -> CodeAdd
      [] st = "nop" -> CodeNop

\* storage.reader: the reader of the code bytes, which start at ADDR
CodeBytes(st) ==
    CASE st = "pop" -> <<89, 88, 255, 225>>
      [] st = "ret" -> <<195>>
      [] st = "jcc" -> <<89, 88, 90, 144, 144, 144, 144>>
      [] st = "bad" -> <<195, 144, 137, 3>>
      [] st = "add" -> <<137, 208, 1, 200, 195>>
      [] st = "nop" -> <<144, 144, 144, 144, 161, 65, 65, 65, 65, 195>>

StorageReader(st) ==
    [present |-> TRUE,
     mem |-> [a \in Range(ADDR, Len(CodeBytes(st))) |-> CodeBytes(st)[Off(a, ADDR) + 1]]]

\* the calls a client makes: stdcall or cdecl, entry address, integer arguments
CallInputs ==
    { [addr |-> ADDR, args |-> <<ARG>>],
      [addr |-> ADDR, args |-> <<W32(65535, 65535)>>],
      [addr |-> ADDR, args |-> <<>>],
      [addr |-> ADDR, args |-> <<Zero, AddOff(ADDR, 5)>>],
      [addr |-> ADDR, args |-> <<ARG, Zero>>],
      [addr |-> ADDR, args |-> <<ARG, AddOff(ADDR, 5)>>],
      [addr |-> AddOff(ADDR, 1), args |-> <<ARG>>],
      [addr |-> AddOff(ADDR, 2), args |-> <<>>] }

(***************************************************************************)
(* Spec: a client of Abi over a Cpu (TestAbi.test), or TestStack.test      *)
(* driving Cpu.run directly.  Cpu.run is followed instruction by           *)
(* instruction: pc is "run" when Cpu.run is entered, "fetch" before        *)
(* storage.get_insn(next), "exec" before an instruction of the list,       *)
(* "endlist" before reset_temp and "raised" when run has raised err.       *)
(***************************************************************************)
NoCall == [conv |-> "none", addr |-> Zero, args |-> <<>>, ret |-> Zero]
NoOutcome == [kind |-> "none", val |-> Zero]

memOnly == <<last, nops, ovl, anon, shadow>>

\* Cpu(arch) with its own Mem(), then Abi(cpu, storage): Abi.__init__ calls reset()
InitAbi ==
    /\ harness = "abi"
    /\ storage \in Storages
    /\ regs = reset(<<>>, initial_regs)
    /\ pc = "idle"

\* TestStack.test: Cpu(arch) alone; Cpu.__init__ leaves no register
InitTest ==
    /\ harness = "test"
    /\ storage = "pop"
    /\ regs = <<>>
    /\ pc = "new"

\* TestCpu: Cpu(arch) alone, over the storage of test or of test_code_read
InitTestCpu ==
    /\ harness = "cpu"
    /\ storage \in {"add", "nop"}
    /\ regs = <<>>
    /\ pc = "new"

Init ==
    /\ data = <<>>
    /\ alloc_last = DEF_ALLOC_BASE
    /\ strict = TRUE
    /\ reader = NoReader
    /\ last = NoOp
    /\ nops = 0
    /\ ovl = 0
    /\ next = Zero
    /\ insn_list = <<>>
    /\ idx = 0
    /\ err = NoErr
    /\ stack_top = Zero
    /\ call = NoCall
    /\ outcome = NoOutcome
    /\ ncalls = 0
    /\ first = FALSE
    /\ was_reset = FALSE
    /\ anon = {}
    /\ shadow = <<>>
    /\ (InitAbi \/ InitTest \/ InitTestCpu)

\* mutant of StdcallBegin: the accumulator is left as the last call left it
StdcallBegin_keeps_accum(conv, inp) ==
    LET s == push(pushargs(data, strict, reader, inp.args), strict, reader,
                  DUMMY_RET_ADDR)
    IN  /\ pc = "idle" /\ harness = "abi" /\ ncalls < MaxCalls
        /\ ncalls' = ncalls + 1
        /\ call' = [conv |-> conv, addr |-> inp.addr, args |-> inp.args,
                    ret |-> DUMMY_RET_ADDR]
        /\ data' = s.data
        /\ stack_top' = s.top
        /\ was_reset' = FALSE
        /\ regs' = SetReg(regs, REG_SP, s.top)
        /\ pc' = "run"
        /\ outcome' = NoOutcome
        /\ err' = NoErr
        /\ UNCHANGED <<alloc_last, strict, reader, next, insn_list, idx, storage,
                       harness, first>>
        /\ UNCHANGED memOnly

\* Abi.stdcall up to the call of Cpu.run: zero the accumulator, then Abi.call:
\* pushargs, push DUMMY_RET_ADDR, set the stack pointer
StdcallBegin(conv, inp) ==
    LET s == push(pushargs(data, strict, reader, inp.args), strict, reader,
                  DUMMY_RET_ADDR)
    IN  /\ pc = "idle" /\ harness = "abi" /\ ncalls < MaxCalls
        /\ ncalls' = ncalls + 1
        /\ call' = [conv |-> conv, addr |-> inp.addr, args |-> inp.args,
                    ret |-> DUMMY_RET_ADDR]
        /\ data' = s.data
        /\ stack_top' = s.top
        /\ was_reset' = FALSE
        /\ IF s.ok
           THEN /\ regs' = SetReg(SetReg(regs, REG_ACCUM, Zero), REG_SP, s.top)
                /\ pc' = "run"
                /\ outcome' = NoOutcome
                /\ err' = NoErr
           ELSE /\ regs' = SetReg(regs, REG_ACCUM, Zero)
                /\ pc' = "idle"
                /\ outcome' = [kind |-> "raised", val |-> Zero]
                /\ err' = MemWriteError(s.top)
        /\ UNCHANGED <<alloc_last, strict, reader, next, insn_list, idx, storage,
                       harness, first>>
        /\ UNCHANGED memOnly

\* abi.stdcall(addr, *args)
AbiStdcall(inp) == StdcallBegin("stdcall", inp)

\* abi.cdecl(addr, *args): return self.stdcall(addr, *args)
AbiCdecl(inp) == StdcallBegin("cdecl", inp)

\* TestStack.test up to cpu.run(tr, addr): a stack, push(arg), push(ret),
\* cpu.reg(sp, stack.top)
TestStackSetup(a, r) ==
    LET s == push(push(NewStack(data), strict, reader, a), strict, reader, r)
    IN  /\ pc = "new" /\ harness = "test"
        /\ call' = [conv |-> "test", addr |-> ADDR, args |-> <<a>>, ret |-> r]
        /\ data' = s.data
        /\ stack_top' = s.top
        /\ regs' = reg(regs, REG_SP, s.top, FALSE)
        /\ pc' = "run"
        /\ UNCHANGED <<alloc_last, strict, reader, next, insn_list, idx, err, storage,
                       harness, outcome, ncalls, first, was_reset>>
        /\ UNCHANGED memOnly

\* TestCpu.test up to cpu.run(tr, addr): esp = stack, ecx = 1, edx = 2
TestCpuSetup ==
    /\ pc = "new" /\ harness = "cpu" /\ storage = "add"
    /\ call' = [conv |-> "cpu", addr |-> ADDR, args |-> <<>>, ret |-> Zero]
    /\ regs' = SetReg(SetReg(SetReg(regs, Rn("ESP"), STACK), Rn("ECX"), W16(1)),
                      Rn("EDX"), W16(2))
    /\ pc' = "run"
    /\ UNCHANGED <<data, alloc_last, strict, reader, next, insn_list, idx, err,
                   stack_top, storage, harness, outcome, ncalls, first, was_reset>>
    /\ UNCHANGED memOnly

\* TestCpu.test_code_read up to cpu.run(tr, addr): esp = stack
TestCodeReadSetup ==
    /\ pc = "new" /\ harness = "cpu" /\ storage = "nop"
    /\ call' = [conv |-> "cpu", addr |-> ADDR, args |-> <<>>, ret |-> Zero]
    /\ regs' = SetReg(regs, Rn("ESP"), STACK)
    /\ pc' = "run"
    /\ UNCHANGED <<data, alloc_last, strict, reader, next, insn_list, idx, err,
                   stack_top, storage, harness, outcome, ncalls, first, was_reset>>
    /\ UNCHANGED memOnly

\* Cpu.run before the loop: next = addr, set_storage(storage), set_ip(next)
CpuRunBegin ==
    /\ pc = "run"
    /\ next' = call.addr
    /\ reader' = StorageReader(storage)
    /\ regs' = SetReg(regs, REG_IP, call.addr)
    /\ first' = TRUE
    /\ pc' = "fetch"
    /\ UNCHANGED <<data, alloc_last, strict, insn_list, idx, err, stack_top, storage,
                   harness, call, outcome, ncalls, was_reset>>
    /\ UNCHANGED memOnly

\* mutant of CpuFetch: the error carries the entry address of the run
CpuFetch_entry ==
    /\ pc = "fetch"
    /\ IF next \in DOMAIN Code(storage)
       THEN /\ insn_list' = Code(storage)[next]
            /\ idx' = 1
            /\ pc' = IF Code(storage)[next] = <<>> THEN "endlist" ELSE "exec"
            /\ err' = err
       ELSE /\ err' = CpuReadError(call.addr)
            /\ pc' = "raised"
            /\ insn_list' = <<>>
            /\ idx' = 0
    /\ UNCHANGED <<data, alloc_last, strict, reader, regs, next, stack_top, storage,
                   harness, call, outcome, ncalls, first, was_reset>>
    /\ UNCHANGED memOnly

\* insn_list = storage.get_insn(next); StorageError becomes CpuReadError(next)
CpuFetch ==
    /\ pc = "fetch"
    /\ IF next \in DOMAIN Code(storage)
       THEN /\ insn_list' = Code(storage)[next]
            /\ idx' = 1
            /\ pc' = IF Code(storage)[next] = <<>> THEN "endlist" ELSE "exec"
            /\ err' = err
       ELSE /\ err' = CpuReadError(next)
            /\ pc' = "raised"
            /\ insn_list' = <<>>
            /\ idx' = 0
    /\ UNCHANGED <<data, alloc_last, strict, reader, regs, next, stack_top, storage,
                   harness, call, outcome, ncalls, first, was_reset>>
    /\ UNCHANGED memOnly

\* mutant of CpuExec: a memory error of an instruction is dropped and the list
\* goes on with the next instruction
CpuExec_recovers ==
    LET insn == insn_list[idx]
        r == execute(regs, data, strict, reader, insn)
    IN  /\ pc = "exec"
        /\ data' = r.data
        /\ IF r.err.kind = "CpuInstructionError"
           THEN /\ err' = r.err
                /\ regs' = r.regs
                /\ pc' = "raised"
                /\ insn_list' = <<>>
                /\ idx' = 0
                /\ next' = next
           ELSE IF r.jump
           THEN /\ next' = r.target
                /\ regs' = r.regs
                /\ pc' = "endlist"
                /\ UNCHANGED <<err, insn_list, idx>>
           ELSE /\ next' = InsnNext(insn)
                /\ regs' = SetReg(r.regs, REG_IP, InsnNext(insn))
                /\ pc' = IF idx = Len(insn_list) THEN "endlist" ELSE "exec"
                /\ idx' = IF idx = Len(insn_list) THEN idx ELSE idx + 1
                /\ UNCHANGED <<err, insn_list>>
        /\ UNCHANGED <<alloc_last, strict, reader, stack_top, storage, harness, call,
                       outcome, ncalls, first, was_reset>>
        /\ UNCHANGED memOnly

\* one turn of the inner loop: execute, then break on a taken JCC, else
\* next, _ = insn.next() and set_ip(next)
CpuExec ==
    LET insn == insn_list[idx]
        r == execute(regs, data, strict, reader, insn)
    IN  /\ pc = "exec"
        /\ data' = r.data
        /\ IF r.err.kind # "none"
           THEN /\ err' = r.err
                /\ regs' = r.regs
                /\ pc' = "raised"
                /\ insn_list' = <<>>
                /\ idx' = 0
                /\ next' = next
           ELSE IF r.jump
           THEN /\ next' = r.target
                /\ regs' = r.regs
                /\ pc' = "endlist"
                /\ UNCHANGED <<err, insn_list, idx>>
           ELSE /\ next' = InsnNext(insn)
                /\ regs' = SetReg(r.regs, REG_IP, InsnNext(insn))
                /\ pc' = IF idx = Len(insn_list) THEN "endlist" ELSE "exec"
                /\ idx' = IF idx = Len(insn_list) THEN idx ELSE idx + 1
                /\ UNCHANGED <<err, insn_list>>
        /\ UNCHANGED <<alloc_last, strict, reader, stack_top, storage, harness, call,
                       outcome, ncalls, first, was_reset>>
        /\ UNCHANGED memOnly

\* after the inner loop: reset_temp()
CpuResetTemp ==
    /\ pc = "endlist"
    /\ regs' = reset_temp(regs)
    /\ first' = FALSE
    /\ pc' = "fetch"
    /\ insn_list' = <<>>
    /\ idx' = 0
    /\ UNCHANGED <<data, alloc_last, strict, reader, next, err, stack_top, storage,
                   harness, call, outcome, ncalls, was_reset>>
    /\ UNCHANGED memOnly

\* Abi.call's handler and the rest of Abi.stdcall: a CpuError whose addr is
\* DUMMY_RET_ADDR is swallowed and the accumulator returned; any other error
\* is raised again
AbiCatch ==
    /\ pc = "raised" /\ harness = "abi"
    /\ IF err.kind \in CpuError /\ err.addr = DUMMY_RET_ADDR
       THEN /\ regs' = reg(regs, REG_ACCUM, Zero, FALSE)
            /\ outcome' = [kind |-> "returned",
                           val |-> reg(regs, REG_ACCUM, Zero, FALSE)[REG_ACCUM].val]
       ELSE /\ regs' = regs
            /\ outcome' = [kind |-> "raised", val |-> Zero]
    /\ pc' = "idle"
    /\ next' = Zero
    /\ UNCHANGED <<data, alloc_last, strict, reader, insn_list, idx, err, stack_top,
                   storage, harness, call, ncalls, first, was_reset>>
    /\ UNCHANGED memOnly

\* Abi.reset: mem.clear(), then cpu.reset(initial_regs())
AbiReset ==
    /\ pc = "idle" /\ harness = "abi"
    /\ data' = <<>>
    /\ regs' = reset(regs, initial_regs)
    /\ was_reset' = TRUE
    /\ UNCHANGED <<alloc_last, strict, reader, next, insn_list, idx, err, stack_top,
                   storage, harness, call, outcome, ncalls, first, pc>>
    /\ UNCHANGED memOnly

Next ==
    \/ \E inp \in CallInputs : AbiStdcall(inp)
    \/ \E inp \in CallInputs : AbiCdecl(inp)
    \/ \E a \in {ARG, Zero}, r \in {RET, DUMMY_RET_ADDR} : TestStackSetup(a, r)
    \/ TestCpuSetup
    \/ TestCodeReadSetup
    \/ CpuRunBegin
    \/ CpuFetch
    \/ CpuExec
    \/ CpuResetTemp
    \/ AbiCatch
    \/ AbiReset

Spec == Init /\ [][Next]_vars

(***************************************************************************)
(* SpecStack: a client that builds Stack(Mem(), x86.ptr_len) and pushes    *)
(* and pops on it.                                                         *)
(***************************************************************************)
PushVals == {ARG, RET, Zero}

StackBottom == AddOff(DEF_STACK_BASE, DEF_STACK_SIZE)

InitStack ==
    /\ data = <<>>
    /\ alloc_last = DEF_ALLOC_BASE
    /\ strict = TRUE
    /\ reader = NoReader
    /\ last = NoOp
    /\ nops = 0
    /\ ovl = 0
    /\ harness = "stack"
    /\ regs = <<>>
    /\ pc = "new"
    /\ next = Zero
    /\ insn_list = <<>>
    /\ idx = 0
    /\ err = NoErr
    /\ stack_top = Zero
    /\ storage = "none"
    /\ call = NoCall
    /\ outcome = NoOutcome
    /\ ncalls = 0
    /\ first = FALSE
    /\ was_reset = FALSE
    /\ anon = {}
    /\ shadow = <<>>

stackFixed == <<alloc_last, strict, reader, nops, ovl, harness, regs, next, insn_list,
                idx, err, storage, call, outcome, ncalls, first, was_reset, anon>>

\* stack = Stack(mem, x86.ptr_len)
StackNew ==
    /\ harness = "stack" /\ pc = "new"
    /\ data' = NewStack(data).data
    /\ stack_top' = NewStack(data).top
    /\ last' = [NoOp EXCEPT !.op = "new"]
    /\ pc' = "stack"
    /\ UNCHANGED <<shadow, stackFixed>>

\* stack.push(val)
StackPush(val) ==
    LET s == push([data |-> data, top |-> stack_top, ok |-> TRUE], strict, reader, val)
    IN  /\ harness = "stack" /\ pc = "stack" /\ Len(shadow) < MaxDepth
        /\ data' = s.data
        /\ stack_top' = s.top
        /\ last' = [op |-> "push", addr |-> s.top, size |-> map_size[ptr_len],
                    val |-> val, ok |-> s.ok]
        /\ shadow' = IF s.ok THEN Append(shadow, val) ELSE shadow
        /\ UNCHANGED <<pc, stackFixed>>

\* stack.pop()
StackPop ==
    LET s == pop([data |-> data, top |-> stack_top, ok |-> TRUE], reader)
    IN  /\ harness = "stack" /\ pc = "stack"
        /\ data' = s.data
        /\ stack_top' = s.top
        /\ last' = [op |-> "pop", addr |-> stack_top, size |-> map_size[ptr_len],
                    val |-> s.val, ok |-> s.ok]
        /\ shadow' = IF s.ok /\ shadow # <<>> THEN SubSeq(shadow, 1, Len(shadow) - 1)
                      ELSE shadow
        /\ UNCHANGED <<pc, stackFixed>>

NextStack ==
    \/ StackNew
    \/ \E v \in PushVals : StackPush(v)
    \/ StackPop

SpecStack == InitStack /\ [][NextStack]_vars

(***************************************************************************)
(* SpecExec: a client that builds Cpu(arch, mem = Mem(strict = False)) and  *)
(* calls Cpu.execute on single instructions.                               *)
(***************************************************************************)
Widths4 == {"U8", "U16", "U32", "U64"}

C8(n) == ArgConst(W16(n), "U8")
C16(n) == ArgConst(W16(n), "U16")
C64 == ArgConst(<<30600, 21862, 13124, 4386>>, "U64")     \* 0x1122334455667788

ExecConsts == {C8(255), C8(2), C16(65534), ArgConst(W32(4660, 22136), "U32"), C64}

Insn1(op, a, b, c) == Insn(Zero, 0, op, a, b, c, 1, TRUE)

\* moves between constants and registers of every width
ExecMoves ==
    {Insn1("I_STR", a, ArgNone, c) :
        a \in ExecConsts \cup {ArgReg(Rn("EBX"), w) : w \in Widths4},
        c \in {ArgReg(Rn("EBX"), w) : w \in Widths4}
              \cup {ArgReg(Rn("EAX"), w) : w \in {"U8", "U64"}}}

ExecAdds ==
    {Insn1("I_ADD", a, C8(2), ArgReg(Rn("EAX"), w)) :
        a \in {C8(255), C16(65534)}, w \in Widths4}

DivOps == {"I_DIV", "I_MOD", "I_SDIV", "I_SMOD"}

ExecDivs ==
    {Insn1(op, a, b, c) :
        op \in DivOps,
        a \in {C8(255), C8(7), C16(65534), ArgReg(Rn("EAX"), "U8")},
        b \in {C8(2), C8(0), C8(254)},
        c \in {ArgReg(Rn("EAX"), "U8"), ArgReg(Rn("EAX"), "U32")}}

ExecMems ==
    {Insn1("I_LDM", C32(0), ArgNone, ArgReg(Rn("EBX"), w)) : w \in Widths4}
    \cup {Insn1("I_STM", C64, ArgNone, C32(0)),
          Insn1("I_BAD", ArgNone, ArgNone, ArgNone)}

ExecInsns == ExecMoves \cup ExecAdds \cup ExecDivs \cup ExecMems

NoExec == [op |-> "none", insn |-> Insn1("I_NONE", ArgNone, ArgNone, ArgNone)]

InitExec ==
    /\ data = <<>>
    /\ alloc_last = DEF_ALLOC_BASE
    /\ strict = FALSE
    /\ reader = NoReader
    /\ last = NoExec
    /\ nops = 0
    /\ ovl = 0
    /\ harness = "exec"
    /\ regs = <<>>
    /\ pc = "exec"
    /\ next = Zero
    /\ insn_list = <<>>
    /\ idx = 0
    /\ err = NoErr
    /\ stack_top = Zero
    /\ storage = "none"
    /\ call = NoCall
    /\ outcome = NoOutcome
    /\ ncalls = 0
    /\ first = FALSE
    /\ was_reset = FALSE
    /\ anon = {}
    /\ shadow = <<>>

\* cpu.execute(insn); err is the exception that left the call, if any
CpuExecute(insn) ==
    LET r == execute(regs, data, strict, reader, insn)
    IN  /\ harness = "exec" /\ nops < MaxInsns
        /\ regs' = r.regs
        /\ data' = r.data
        /\ err' = r.err
        /\ last' = [op |-> "exec", insn |-> insn]
        /\ nops' = nops + 1
        /\ UNCHANGED <<alloc_last, strict, reader, ovl, harness, pc, next, insn_list,
                       idx, stack_top, storage, call, outcome, ncalls, first,
                       was_reset, anon, shadow>>

NextExec == \E insn \in ExecInsns : CpuExecute(insn)

SpecExec == InitExec /\ [][NextExec]_vars

(***************************************************************************)
(* C1: after a successful store(A, W, k) with k < 2^W, load(A, W') returns *)
(* k mod 2^(bits of W') for every width W' no wider than W; in particular  *)
(* load(A, W) returns k.                                                   *)
(***************************************************************************)
StoreLoadRoundTrip ==
    (last.op = "store" /\ last.ok) =>
        \A w \in DOMAIN map_length :
            map_length[w] <= map_length[last.size] =>
                LET r == load(data, reader, last.addr, w)
                IN  r.ok /\ r.val = Mask(w, last.val)

\* a U16 load has returned the low 16 bits of the U64 value 0x0123456789abcdef
StoreLoadWitness ==
    /\ last.op = "load" /\ last.ok /\ last.addr = A_TEST
    /\ last.size = "U16" /\ last.val = W16(52719)
    /\ load(data, reader, A_TEST, "U64").val = W64(291, 17767, 35243, 52719)

(***************************************************************************)
(* C2: a successful store(A, W, k) sets byte A+i to (k >> 8*i) & 0xFF for  *)
(* exactly the addresses A .. A+bytelen(W)-1 and leaves the definedness    *)
(* and value of every other address unchanged; the four overlapping stores *)
(* of TestMem.test on an empty lenient memory leave exactly the bytes      *)
(* [0x88,0x44,0x22,0x22,0x11,0x11,0x11,0x11] at A..A+7.                    *)
(***************************************************************************)
StoreFrameStep ==
    (last'.op = "store" /\ last'.ok /\ nops' = nops + 1) =>
        LET rng == Range(last'.addr, map_length[last'.size])
        IN  /\ DOMAIN data' = (DOMAIN data) \cup rng
            /\ \A a \in DOMAIN data' :
                  data'[a] = IF a \in rng
                             THEN ByteOf(last'.val, Off(a, last'.addr))
                             ELSE data[a]

OverlapBytes == <<136, 68, 34, 34, 17, 17, 17, 17>>

OverlapResult ==
    ovl = 4 =>
        /\ DOMAIN data = Range(A_TEST, 8)
        /\ \A i \in 0..7 : data[AddOff(A_TEST, i)] = OverlapBytes[i + 1]

StoreFrame == [][StoreFrameStep]_vars /\ []OverlapResult

\* the four stores of TestMem.test have been issued
StoreFrameWitness == ovl = 4 /\ last.op = "store" /\ last.size = "U8"

(***************************************************************************)
(* C3: stdcall zeroes the accumulator before the run; when the run ends    *)
(* with the fetch fault at DUMMY_RET_ADDR the call returns the value the   *)
(* accumulator holds at that moment; for 'pop ecx; pop eax; jmp ecx'       *)
(* entered at its start stdcall(addr, x, ...) returns x, and a callee that *)
(* never writes the accumulator ('ret', or 'jmp ecx' alone) returns 0 even *)
(* after an earlier call left another value there; cdecl, which is         *)
(* stdcall, obeys the same.                                                *)
(***************************************************************************)
Returned(v) == [kind |-> "returned", val |-> v]

StdcallStep ==
    /\ (harness = "abi" /\ pc = "idle" /\ pc' = "run") =>
            regs'[REG_ACCUM].val = Zero
    /\ (harness = "abi" /\ pc = "raised" /\ err = CpuReadError(DUMMY_RET_ADDR)) =>
            outcome' = Returned(regs[REG_ACCUM].val)

StdcallValues ==
    (harness = "abi" /\ pc = "idle" /\ outcome.kind # "none") =>
        /\ (storage = "pop" /\ call.addr = ADDR /\ Len(call.args) >= 1) =>
                outcome = Returned(call.args[1])
        /\ (storage = "pop" /\ call.addr = AddOff(ADDR, 2)
                /\ outcome.kind = "returned") => outcome.val = Zero
        /\ (storage = "ret" /\ call.addr = ADDR) => outcome = Returned(Zero)

StdcallReturnsAccum == [][StdcallStep]_vars /\ []StdcallValues

\* a second call, made through cdecl, has returned its argument 0x42424242
StdcallWitness ==
    /\ harness = "abi" /\ pc = "idle" /\ storage = "pop" /\ ncalls = 2
    /\ call.conv = "cdecl" /\ call.args = <<ARG>>
    /\ err = CpuReadError(DUMMY_RET_ADDR)
    /\ outcome = Returned(ARG)

(***************************************************************************)
(* C4: Abi.call treats as normal completion exactly the runs that end with *)
(* CpuReadError at DUMMY_RET_ADDR; a run that ends with any other error    *)
(* (CpuReadError elsewhere, CpuInstructionError at any address, including  *)
(* DUMMY_RET_ADDR, MemReadError, MemWriteError) raises it to the caller.   *)
(***************************************************************************)
RecoversOnlyReadFault ==
    (harness = "abi" /\ pc = "idle" /\ outcome.kind # "none") =>
        (outcome.kind = "returned" <=> err = CpuReadError(DUMMY_RET_ADDR))

(***************************************************************************)
(* C5: after Abi.reset() memory has no defined address and every general   *)
(* purpose register and every flag register holds 0.                       *)
(***************************************************************************)
ResetZeroesRegisters ==
    was_reset =>
        /\ DOMAIN data = {}
        /\ \A r \in RegGeneral \cup RegFlags :
                r \in DOMAIN regs /\ regs[r].val = Zero

(***************************************************************************)
(* C6: when Abi.call enters Cpu.run the stack pointer register equals the  *)
(* stack top, which lies (n + 1) words below the stack bottom; the word at *)
(* SP is DUMMY_RET_ADDR and the word at SP + (i + 1) * ptr_len is argument *)
(* i, for each of the n arguments.                                         *)
(***************************************************************************)
WordAt(addr) == load(data, reader, addr, map_size[ptr_len])

CallStackLayout ==
    (harness = "abi" /\ pc = "run") =>
        /\ regs[REG_SP].val = stack_top
        /\ stack_top = SubOff(AddOff(DEF_STACK_BASE, DEF_STACK_SIZE),
                              ptr_len * (Len(call.args) + 1))
        /\ WordAt(stack_top).ok /\ WordAt(stack_top).val = DUMMY_RET_ADDR
        /\ \A i \in 0..(Len(call.args) - 1) :
                /\ WordAt(AddOff(stack_top, (i + 1) * ptr_len)).ok
                /\ WordAt(AddOff(stack_top, (i + 1) * ptr_len)).val = call.args[i + 1]

\* a call with two different arguments is about to enter Cpu.run
CallStackWitness ==
    /\ harness = "abi" /\ pc = "run"
    /\ call.args = <<ARG, AddOff(ADDR, 5)>>
    /\ WordAt(AddOff(stack_top, 2 * ptr_len)).val = AddOff(ADDR, 5)

(***************************************************************************)
(* C7: whenever a REIL list has finished and Cpu.run is about to fetch the *)
(* next native instruction no V_ register is in the register file, and the *)
(* clean-up leaves every R_ register as it was at the end of the list; the *)
(* temporary V_07 written by one native instruction reads as 0 in the      *)
(* next one, so esi, which receives it, stays 0.                           *)
(***************************************************************************)
NoTempAtFetch ==
    (pc = "fetch" /\ ~first) => \A n \in DOMAIN regs : n.pfx # "V_"

TempStep ==
    (pc = "endlist" /\ pc' = "fetch") =>
        \A n \in DOMAIN regs :
            n.pfx = "R_" => (n \in DOMAIN regs' /\ regs'[n] = regs[n])

TempReadsDefault ==
    (storage = "jcc" /\ Rn("ESI") \in DOMAIN regs) => regs[Rn("ESI")].val = Zero

TempLifetime == [][TempStep]_vars /\ []NoTempAtFetch /\ []TempReadsDefault

\* V_07 was written by the instruction at ADDR + 3, which fell through to the
\* instruction at ADDR + 5, whose first REIL instruction has read V_07 into esi
TempLifetimeWitness ==
    /\ storage = "jcc" /\ pc = "exec" /\ idx = 2 /\ ncalls = 1
    /\ insn_list = ReadTemp(AddOff(ADDR, 5))
    /\ regs[Rn("EBX")].val = W16(9)
    /\ Vn("07") \in DOMAIN regs /\ regs[Rn("ESI")].val = Zero

(***************************************************************************)
(* C8: an I_JCC whose condition is non-zero ends the current list at once, *)
(* whatever follows it in the list, and the next fetch is at the value of  *)
(* its target operand, 0 included; an I_JCC whose condition is 0 goes on   *)
(* with the next REIL instruction of the list, or with the fallthrough     *)
(* address insn.next() when it is the last one.                            *)
(***************************************************************************)
JccStep ==
    (pc = "exec" /\ insn_list[idx].op = "I_JCC") =>
        LET insn == insn_list[idx]
            cond == get_val(arg(regs, insn.a).arg)
            target == get_val(arg(regs, insn.c).arg)
        IN  IF cond # Zero
            THEN pc' = "endlist" /\ next' = target /\ idx' = idx
            ELSE /\ next' = InsnNext(insn)
                 /\ idx < Len(insn_list) =>
                        (pc' = "exec" /\ idx' = idx + 1 /\ insn_list' = insn_list)
                 /\ idx = Len(insn_list) => pc' = "endlist"

FetchAfterListStep == pc = "endlist" => (pc' = "fetch" /\ next' = next)

JccSemantics == [][JccStep /\ FetchAfterListStep]_vars

\* a taken JCC in the middle of a list, with target 0: the fetch is at 0 and
\* the instruction after the JCC, which sets ebx, was not executed
JccWitness ==
    /\ storage = "jcc" /\ pc = "fetch" /\ ~first /\ ncalls = 1
    /\ call.args = <<ARG, Zero>>
    /\ next = Zero /\ regs[Rn("EBX")].val = Zero

(***************************************************************************)
(* C9: at every storage fetch of address next during Cpu.run, and so also  *)
(* when run ends with CpuReadError(next), the instruction pointer register *)
(* holds next.                                                             *)
(***************************************************************************)
IpIsNextAtFetch ==
    /\ pc = "fetch" => (REG_IP \in DOMAIN regs /\ regs[REG_IP].val = next)
    /\ (pc = "raised" /\ err.kind = "CpuReadError") =>
            (REG_IP \in DOMAIN regs /\ regs[REG_IP].val = err.addr)

(***************************************************************************)
(* C10: Cpu.run is left only by an error; a fetch at an address for which  *)
(* the storage has no REIL list raises CpuReadError carrying exactly that  *)
(* address; TestStack.test, with return address R on the stack and no code *)
(* at R, ends with CpuReadError(R) and the pushed argument in the          *)
(* accumulator.                                                            *)
(***************************************************************************)
Running == {"run", "fetch", "exec", "endlist"}

RunStep ==
    /\ (pc \in Running /\ pc' \notin Running) =>
            (pc' = "raised" /\ err'.kind # "none" /\ outcome' = outcome)
    /\ (pc = "fetch" /\ next \notin DOMAIN Code(storage)) =>
            (pc' = "raised" /\ err' = CpuReadError(next))

TestStackResult ==
    (harness = "test" /\ pc = "raised") =>
        /\ err = CpuReadError(call.ret)
        /\ regs[REG_ACCUM].val = call.args[1]

RunEndsByFault == [][RunStep]_vars /\ []TestStackResult

\* TestStack.test has ended: CpuReadError(0x43434343), eax = 0x42424242
RunEndsWitness ==
    /\ harness = "test" /\ pc = "raised"
    /\ err = CpuReadError(RET) /\ regs[REG_ACCUM].val = ARG

(***************************************************************************)
(* C11: an error raised by an instruction (MemReadError of an I_LDM,       *)
(* MemWriteError of an I_STM, CpuInstructionError of an unknown opcode)    *)
(* ends Cpu.run at that instruction and is the error the caller sees,      *)
(* with the faulting address; every register as the earlier instructions   *)
(* left it stays so, and so does memory unless the faulting instruction is *)
(* the store itself; TestCpu.test ends with MemReadError(0x42424242) and   *)
(* eax = 3.                                                                *)
(***************************************************************************)
Faults(insn) == execute(regs, data, strict, reader, insn).err.kind # "none"

RunFaultStep ==
    /\ (pc = "exec" /\ Faults(insn_list[idx])) => pc' = "raised"
    /\ (pc = "exec" /\ pc' = "raised") =>
            LET insn == insn_list[idx]
            IN  /\ insn.op = "I_LDM" =>
                        err' = MemReadError(get_val(arg(regs, insn.a).arg))
                /\ insn.op = "I_STM" =>
                        err' = MemWriteError(get_val(arg(regs, insn.c).arg))
                /\ insn.op \notin {"I_LDM", "I_STM"} =>
                        (insn.op \notin REIL_INSN
                            /\ err' = CpuInstructionError(insn.addr, insn.inum))
                /\ \A n \in DOMAIN regs : n \in DOMAIN regs' /\ regs'[n] = regs[n]
                /\ insn.op # "I_STM" => data' = data
    /\ pc = "raised" => err' = err

TestCpuResult ==
    (harness = "cpu" /\ storage = "add" /\ pc = "raised") =>
        /\ err = MemReadError(STACK)
        /\ regs[REG_ACCUM].val = W16(3)

ReadContract(d, rd, addr, n) ==
    LET r == read(d, rd, addr, n)
        x == ReaderRead(rd, addr, n)
    IN  IF Range(addr, n) \subseteq DOMAIN d
        THEN r.ok /\ r.data = d /\ r.bytes = [i \in 1..n |-> d[AddOff(addr, i - 1)]]
        ELSE IF rd.present /\ x.some
        THEN /\ r.ok /\ r.bytes = x.bytes /\ Len(x.bytes) = n
             /\ DOMAIN r.data = (DOMAIN d) \cup Range(addr, n)
             /\ \A a \in DOMAIN r.data :
                    r.data[a] = IF a \in Range(addr, n)
                                THEN x.bytes[Off(a, addr) + 1] ELSE d[a]
             /\ \A o \in 0..(n - 1) : \A k \in 1..(n - o) :
                    \A rd2 \in {NoReader, rd} :
                        LET r2 == read(r.data, rd2, AddOff(addr, o), k)
                        IN  /\ r2.ok /\ r2.data = r.data
                            /\ r2.bytes = SubSeq(x.bytes, o + 1, o + k)
        ELSE ~r.ok /\ r.data = d

ReadAddrs == {ADDR, AddOff(ADDR, 2), AddOff(ADDR, 8), A_FILL, STACK}

DemandFill ==
    harness = "cpu" =>
        \A rd \in {reader, NoReader, TestReader} :
            \A addr \in ReadAddrs : \A n \in {1, 2, 4} :
                ReadContract(data, rd, addr, n)

CodeReadStep ==
    (harness = "cpu" /\ pc = "exec" /\ insn_list[idx].op = "I_LDM") =>
        LET addr == get_val(arg(regs, insn_list[idx].a).arg)
        IN  /\ reader = StorageReader(storage)
            /\ ReaderRead(reader, addr, 4).some =>
                    /\ pc' = "exec"
                    /\ regs'[insn_list[idx].c.name].val
                            = unpack("U32", ReaderRead(reader, addr, 4).bytes)
                    /\ Range(addr, 4) \subseteq DOMAIN data'
            /\ (~ReaderRead(reader, addr, 4).some
                    /\ ~(Range(addr, 4) \subseteq DOMAIN data)) =>
                    (pc' = "raised" /\ err' = MemReadError(addr) /\ data' = data)

CodeReadResult ==
    (harness = "cpu" /\ storage = "nop" /\ pc = "raised") =>
        /\ regs[REG_ACCUM].val = W32(37008, 37008)
        /\ load(data, NoReader, ADDR, "U32").val = W32(37008, 37008)

ReadDemandFills == [][CodeReadStep]_vars /\ []DemandFill /\ []CodeReadResult

\* TestCpu.test_code_read has ended: eax = 0x90909090, read from the code bytes
\* that the storage's reader installed at 0x41414141..0x41414144
ReadFillWitness ==
    /\ harness = "cpu" /\ storage = "nop" /\ pc = "raised"
    /\ err = MemReadError(STACK)
    /\ regs[REG_ACCUM].val = W32(37008, 37008)
    /\ DOMAIN data = Range(ADDR, 4)

(***************************************************************************)
(* C13: a store whose range has an undefined address succeeds exactly when *)
(* the memory is lenient, or strict with a reader that answers for the     *)
(* range; a store to a fully defined range always succeeds; after a        *)
(* successful store the whole range holds the bytes of the stored value,   *)
(* not the reader's.  With strict = true and no reader store(0x2000, U32,  *)
(* 0) fails on an undefined range and succeeds after alloc(0x2000, 4).     *)
(***************************************************************************)
StoreAdmitted(addr, n) ==
    \/ Range(addr, n) \subseteq DOMAIN data
    \/ ~strict
    \/ reader.present /\ ReaderRead(reader, addr, n).some

WriteStep ==
    (last'.op = "store" /\ nops' = nops + 1) =>
        LET n == map_length[last'.size]
        IN  /\ last'.ok <=> StoreAdmitted(last'.addr, n)
            /\ last'.ok =>
                    \A i \in 0..(n - 1) :
                        /\ AddOff(last'.addr, i) \in DOMAIN data'
                        /\ data'[AddOff(last'.addr, i)] = ByteOf(last'.val, i)

StrictScenarioStep ==
    (strict /\ ~reader.present /\ last'.op = "store" /\ nops' = nops + 1
        /\ last'.addr = A_STRICT /\ last'.size = "U32" /\ last'.val = Zero) =>
        /\ DOMAIN data = {} => ~last'.ok
        /\ (last.op = "alloc" /\ last.addr = A_STRICT) => last'.ok

WriteAdmission == [][WriteStep /\ StrictScenarioStep]_vars

\* strict memory, a reader that knows 0x1000..0x1003 = AA BB CC DD: the store
\* of 0x22222222 at 0x1000 has succeeded and the range holds 22 22 22 22
WriteAdmissionWitness ==
    /\ strict /\ reader = TestReader
    /\ last = [op |-> "store", addr |-> A_FILL, size |-> "U32",
               val |-> W32(8738, 8738), ok |-> TRUE]
    /\ nops = 1
    /\ data[A_FILL] = 34 /\ data[AddOff(A_FILL, 3)] = 34

(***************************************************************************)
(* C14: a register written through a destination operand of width W holds  *)
(* k mod 2^W, where k is what the instruction evaluated or loaded: no bit   *)
(* above W is set in the stored value, and reading it back through an       *)
(* operand of width W yields k mod 2^W. A source register read through an   *)
(* operand of width W contributes only its low W bits.                      *)
(***************************************************************************)
RegVal(rs, name) ==
    IF Canon(name, FALSE) \in DOMAIN rs THEN rs[Canon(name, FALSE)].val ELSE Zero

\* the low bits an operand exposes, taken from the raw register file
Exposed(rs, x) ==
    IF x.type = "A_REG" THEN ArgConst(Mask(x.size, RegVal(rs, x.name)), x.size) ELSE x

\* the untruncated value an instruction writes to its destination
Written(rs, d, insn) ==
    IF insn.op = "I_LDM"
    THEN unpack(insn.c.size,
                [i \in 1..map_length[insn.c.size] |->
                    d[AddOff(get_val(insn.a), i - 1)]])
    ELSE eval(insn.op, Exposed(rs, insn.a), Exposed(rs, insn.b))

WritesReg(insn) == insn.op \in REIL_INSN \ {"I_NONE", "I_JCC", "I_STM"}

TruncStep ==
    (last'.op = "exec" /\ nops' = nops + 1 /\ WritesReg(last'.insn)
        /\ err'.kind = "none")
    => LET insn == last'.insn
           k == Written(regs, data, insn)
           back == arg(regs', ArgReg(insn.c.name, insn.c.size)).arg
       IN  /\ RegVal(regs', insn.c.name) = Mask(insn.c.size, k)
           /\ Mask(insn.c.size, RegVal(regs', insn.c.name))
                = RegVal(regs', insn.c.name)
           /\ get_val(back) = Mask(insn.c.size, k)

WidthTruncation == [][TruncStep]_vars

\* 0x12345678 was written through a U8 destination and 0x78 is what is held
WidthTruncationWitness ==
    /\ last.op = "exec" /\ last.insn.op = "I_STR" /\ err.kind = "none"
    /\ last.insn.a = ArgConst(W32(4660, 22136), "U32")
    /\ last.insn.c = ArgReg(Rn("EBX"), "U8")
    /\ RegVal(regs, Rn("EBX")) = W16(120)

(***************************************************************************)
(* C15: I_SDIV and I_SMOD read their operands in two's complement, the     *)
(* quotient is truncated toward zero and the remainder takes the sign of   *)
(* the dividend, the result being truncated to the destination width; at   *)
(* U8, I_SDIV(0xFF, 0x02) = 0x00 and I_DIV(0xFF, 0x02) = 0x7F.              *)
(***************************************************************************)
Abs(x) == IF x < 0 THEN -x ELSE x

\* the quotient truncated toward zero and the remainder it leaves
TruncDiv(x, y) ==
    IF (x < 0) = (y < 0) THEN Abs(x) \div Abs(y) ELSE -(Abs(x) \div Abs(y))

TruncMod(x, y) == x - y * TruncDiv(x, y)

SignedDivStep ==
    (last'.op = "exec" /\ nops' = nops + 1 /\ err'.kind = "none"
        /\ last'.insn.op \in {"I_DIV", "I_SDIV", "I_SMOD"})
    => LET insn == last'.insn
           a == Exposed(regs, insn.a)
           b == Exposed(regs, insn.b)
           res == RegVal(regs', insn.c.name)
       IN  /\ (insn.op = "I_SDIV" /\ val_s(b) # 0)
                => res = Mask(insn.c.size, FromInt(TruncDiv(val_s(a), val_s(b))))
           /\ (insn.op = "I_SMOD" /\ val_s(b) # 0)
                => res = Mask(insn.c.size, FromInt(TruncMod(val_s(a), val_s(b))))
           /\ (insn.op = "I_SDIV" /\ a = C8(255) /\ b = C8(2)) => res = Zero
           /\ (insn.op = "I_DIV" /\ a = C8(255) /\ b = C8(2)) => res = W16(127)

SignedDivTruncates == [][SignedDivStep]_vars

(***************************************************************************)
(* C16: executing I_DIV, I_MOD, I_SDIV or I_SMOD with a zero divisor fails  *)
(* with an arithmetic error: the error leaves Cpu.execute and the           *)
(* destination register is not written.                                     *)
(***************************************************************************)
DivByZeroStep ==
    (last'.op = "exec" /\ nops' = nops + 1 /\ last'.insn.op \in DivOps
        /\ val_u(Exposed(regs, last'.insn.b)) = 0)
    => /\ err'.kind # "none"
       /\ RegVal(regs', last'.insn.c.name) = RegVal(regs, last'.insn.c.name)

DivByZeroFails == [][DivByZeroStep]_vars

(***************************************************************************)
(* C17: the defined addresses are those covered, since the last clear(),   *)
(* by a successful store, an alloc or a demand-fill: a fresh memory defines *)
(* nothing, each successful operation adds exactly its range, a failed load *)
(* or store adds nothing, and only clear() removes addresses.               *)
(***************************************************************************)
Defined(d) == DOMAIN d

Covered(op) == Range(op.addr, map_length[op.size])

DefinedStep ==
    (harness = "mem" /\ nops' = nops + 1)
    => /\ last'.op = "clear" => Defined(data') = {}
       /\ (last'.op \in {"store", "load"} /\ last'.ok)
            => Defined(data') = Defined(data) \cup Covered(last')
       /\ (last'.op \in {"store", "load"} /\ ~last'.ok)
            => Defined(data') = Defined(data)
       /\ last'.op = "alloc" => Defined(data') = Defined(data) \cup Covered(last')
       /\ last'.op # "clear" => Defined(data) \subseteq Defined(data')

FreshDefinesNothing == nops = 0 => Defined(data) = {}

DefinedSinceClear == [][DefinedStep]_vars /\ []FreshDefinesNothing

\* a rejected 8-byte store over a half-defined range defined nothing more
DefinedSinceClearWitness ==
    /\ harness = "mem" /\ last.op = "store" /\ ~last.ok /\ last.size = "U64"
    /\ Defined(data) = Range(last.addr, 4)

(***************************************************************************)
(* C18: the allocator cursor starts at 0x11000000 and never decreases, not  *)
(* even across clear(); an anonymous allocation of size s returns the       *)
(* cursor and advances it by s, so the ranges anonymous allocations return  *)
(* are pairwise disjoint; every other operation, an allocation at an        *)
(* explicit address included, leaves the cursor where it is.                *)
(***************************************************************************)
VLe(x, y) ==
    \/ x = y
    \/ \E i \in 1..4 : x[i] < y[i] /\ \A j \in (i + 1)..4 : x[j] = y[j]

CursorStep ==
    harness = "mem"
    => /\ VLe(alloc_last, alloc_last')
       /\ anon' # anon
            => \E n \in AllocSizes :
                  /\ anon' = anon \cup {<<alloc_last, n>>}
                  /\ last'.op = "alloc" /\ last'.addr = alloc_last
                  /\ alloc_last' = AddOff(alloc_last, n)
                  /\ Range(alloc_last, n) \subseteq DOMAIN data'
       /\ anon' = anon => alloc_last' = alloc_last
       /\ (last'.op = "alloc" /\ last'.addr \in MemAddrs) => alloc_last' = alloc_last
       /\ last'.op = "clear" => alloc_last' = alloc_last

CursorStart ==
    /\ VLe(DEF_ALLOC_BASE, alloc_last)
    /\ (harness = "mem" /\ nops = 0) => alloc_last = DEF_ALLOC_BASE

AnonDisjoint ==
    \A x \in anon : \A y \in anon \ {x} :
        Range(x[1], x[2]) \cap Range(y[1], y[2]) = {}

CursorMonotonic == [][CursorStep]_vars /\ []CursorStart /\ []AnonDisjoint

\* two anonymous allocations with a clear() between them: the second one
\* starts where the first one ended, and alone is defined
CursorMonotonicWitness ==
    /\ harness = "mem" /\ last.op = "alloc" /\ Cardinality(anon) = 2
    /\ last.addr # DEF_ALLOC_BASE
    /\ <<last.addr, map_length[last.size]>> \in anon
    /\ DOMAIN data = Range(last.addr, map_length[last.size])

(***************************************************************************)
(* C19: a Stack is full-descending and LIFO. Construction leaves top at    *)
(* base + size over a defined region; push(v) decreases top by item_size   *)
(* and stores v there, changing nothing else; pop() returns the word at    *)
(* top, increases top by item_size and leaves memory as it is. The values  *)
(* pushed and not yet popped lie below the bottom in push order, pops      *)
(* return them in reverse order and bring top back.                        *)
(***************************************************************************)
StackWord(d, addr) == load(d, NoReader, addr, map_size[ptr_len])

StackOpStep ==
    harness = "stack"
    => /\ last'.op = "new"
            => /\ stack_top' = StackBottom
               /\ Range(DEF_STACK_BASE, DEF_STACK_SIZE) \subseteq DOMAIN data'
       /\ (last'.op = "push" /\ last'.ok)
            => /\ stack_top' = SubOff(stack_top, ptr_len)
               /\ StackWord(data', stack_top').ok
               /\ StackWord(data', stack_top').val = last'.val
               /\ data' = [data EXCEPT ![AddOff(stack_top', 0)] = data'[AddOff(stack_top', 0)],
                                       ![AddOff(stack_top', 1)] = data'[AddOff(stack_top', 1)],
                                       ![AddOff(stack_top', 2)] = data'[AddOff(stack_top', 2)],
                                       ![AddOff(stack_top', 3)] = data'[AddOff(stack_top', 3)]]
       /\ (last'.op = "pop" /\ last'.ok)
            => /\ last'.val = StackWord(data, stack_top).val
               /\ stack_top' = AddOff(stack_top, ptr_len)
               /\ data' = data
               /\ shadow # <<>>
               /\ last'.val = shadow[Len(shadow)]
       /\ (last'.op = "pop" /\ ~last'.ok)
            => (shadow = <<>> /\ stack_top' = stack_top /\ data' = data)

StackHolds ==
    (harness = "stack" /\ pc = "stack")
    => /\ stack_top = SubOff(StackBottom, ptr_len * Len(shadow))
       /\ \A i \in 1..Len(shadow) :
             StackWord(data, SubOff(StackBottom, ptr_len * i)).val = shadow[i]

StackLifo == [][StackOpStep]_vars /\ []StackHolds

\* push(0x42424242); push(0x43434343); pop(); pop(): the second pop returned
\* the first value, top is back at the bottom and both words are still there
StackLifoWitness ==
    /\ harness = "stack" /\ last.op = "pop" /\ last.ok /\ last.val = ARG
    /\ shadow = <<>> /\ stack_top = StackBottom
    /\ StackWord(data, SubOff(StackBottom, 8)).val = RET
    /\ StackWord(data, SubOff(StackBottom, 4)).val = ARG

(***************************************************************************)
(* C20: a store that fails with MemWriteError leaves memory exactly as it  *)
(* was before the call: the same addresses defined, with the same bytes.   *)
(***************************************************************************)
FailedStoreStep ==
    (harness = "mem" /\ nops' = nops + 1 /\ last'.op = "store" /\ ~last'.ok)
    => data' = data

FailedStoreLeavesMemory == [][FailedStoreStep]_vars

(***************************************************************************)
(* C21: a demand-fill never changes a byte that is already defined: a load *)
(* leaves every defined address defined and holding the byte it held, and  *)
(* the bytes it returns for such addresses are those bytes, even when the  *)
(* range also covers undefined addresses and the reader answers.           *)
(***************************************************************************)
LoadKeepsStep ==
    (harness = "mem" /\ nops' = nops + 1 /\ last'.op = "load")
    => /\ \A a \in DOMAIN data : a \in DOMAIN data' /\ data'[a] = data[a]
       /\ last'.ok
            => \A a \in Range(last'.addr, map_length[last'.size]) \cap DOMAIN data :
                  pack(last'.size, last'.val)[Off(a, last'.addr) + 1] = data[a]

DemandFillKeepsDefined == [][LoadKeepsStep]_vars

====
